---------------------------- MODULE Spec2Model ----------------------------
(***************************************************************************)
(* Model of scripts/send_emails.py: the resumable batch runner main() and  *)
(* its checkpoint file data/email_status.json.                             *)
(*                                                                         *)
(* A professor is represented by its 'email' field, the only field the     *)
(* control flow of main() reads.  The spreadsheet is the sequence of rows  *)
(* that get_professor_data keeps (rows with at least three cells).         *)
(* Sequences are 1-based: Python position i is element i + 1.              *)
(***************************************************************************)
EXTENDS Integers, Sequences, FiniteSets, TLC

\* Per-run quota.  The source sets EMAILS_PER_DAY = 10 (send_emails.py:22);
\* the model scales it down so that several windows fit in a short sheet.
EMAILS_PER_DAY == 2

\* Longest spreadsheet considered.
MaxLen == 3

\* Largest number of completed runs of main() considered: enough to exhaust
\* the longest sheet and to run once more after that.
MaxRuns == (MaxLen \div EMAILS_PER_DAY) + 2

\* Largest number of runs that find the sheet edited.
MaxEdits == 1

\* Addresses that may occur in the 'email' column.
Addr == {"a", "b", "c"}

\* Operating-system processes that may execute main().
Procs == {"p1", "p2"}

\* The process that runs main() when runs do not overlap.
Runner == "p1"

VARIABLES
    sheet,        \* rows of the spreadsheet (their 'email' cells), in order
    file,         \* content of STATUS_FILE
    creatable,    \* whether the directory of STATUS_FILE exists or can be made
    pc,           \* pc[p]: position of process p in main()
    professors,   \* professors[p]: local of main()
    status,       \* status[p]: local of main()
    last_index,   \* last_index[p]: local of main()
    sent_emails,  \* sent_emails[p]: local of main(), aliases status["sent_emails"]
    i,            \* i[p]: loop variable of main()
    emails_sent,  \* emails_sent[p]: local of main()
    file0,        \* history: file0[p] is STATUS_FILE as process p's run found it
                  \*          (when it started, and again when it loaded)
    log,          \* history: log[p] is the calls of generate_email_content and
                  \*          send_email made by process p's current run
    fileops,      \* history: fileops[p] is the accesses to STATUS_FILE made by
                  \*          process p's current run
    runs,         \* history: number of runs of main() that ran to completion
    edits,        \* history: number of runs that found the sheet edited
    seen,         \* history: the addresses found in STATUS_FILE when a run started
    attempts,     \* history: <<position, outcome>> of every professor that a
                  \*          completed run on the present sheet tried to reach
    interrupted   \* history: where the latest kill hit a run, and the addresses
                  \*          that run had sent to

vars == <<sheet, file, creatable, pc, professors, status, last_index, sent_emails, i,
          emails_sent, file0, log, fileops, runs, edits, seen, attempts,
          interrupted>>

locals == <<professors, status, last_index, sent_emails, i, emails_sent>>

history == <<runs, edits, seen, attempts, interrupted>>

---------------------------------------------------------------------------
(* Helpers *)

Min(x, y) == IF x <= y THEN x ELSE y

Range(s) == {s[k] : k \in 1..Len(s)}

\* All sequences over S of length at most n.
SeqUpTo(S, n) == UNION {[1..k -> S] : k \in 0..n}

Lists == SeqUpTo(Addr, MaxLen)

---------------------------------------------------------------------------
(* STATUS_FILE *)

\* The file does not exist.
Absent == [st |-> "absent", last_index |-> 0, sent_emails |-> <<>>]

\* The file exists and holds the JSON text of a status.
Valid(s) == [st |-> "valid", last_index |-> s.last_index, sent_emails |-> s.sent_emails]

\* The file exists and holds an empty or incomplete JSON text: open(.., 'w')
\* has truncated it and json.dump has not finished.
Truncated == [st |-> "truncated", last_index |-> 0, sent_emails |-> <<>>]

\* load_email_status when it returns: the file's content, or the default.
DefaultStatus == [last_index |-> 0, sent_emails |-> <<>>]

\* load_email_status as it would be if it ignored the file.
LoadResultFresh(f) == DefaultStatus

LoadResult(f) ==
    IF f.st = "valid"
    THEN [last_index |-> f.last_index, sent_emails |-> f.sent_emails]
    ELSE DefaultStatus

\* load_email_status raises (json.load on a text that is not JSON).
LoadRaises(f) == f.st = "truncated"

---------------------------------------------------------------------------
(* main() *)

\* get_professor_data on a sheet holding the rows s: the rows, in sheet order.
GetProfessorData(s) == s

\* Line 154 as it would be if the loop ran to the end of the list.
WindowEndNoQuota(p) == Len(professors[p])

\* The stop of range(last_index, min(last_index + EMAILS_PER_DAY, len(professors))).
WindowEnd(p) == Min(last_index[p] + EMAILS_PER_DAY, Len(professors[p]))

\* The professor of the current iteration, professors[i].
Professor(p) == professors[p][i[p] + 1]

\* A call of generate_email_content or send_email as the history records it.
Call(op, p, ok) == [op |-> op, pos |-> i[p], addr |-> Professor(p), ok |-> ok]

\* The addresses a STATUS_FILE content records as sent to.
Persisted(f) == Range(f.sent_emails)

\* The addresses that the calls of a log delivered to.
Delivered(l) == {l[k].addr : k \in {n \in 1..Len(l) : l[n].op = "send" /\ l[n].ok}}

\* The positions a log tried to reach, each with what came of it.
Attempts(l) ==
    {<<l[k].pos,
       IF \E n \in 1..Len(l) : l[n].op = "send" /\ l[n].ok /\ l[n].pos = l[k].pos
       THEN "sent" ELSE "failed">> : k \in {n \in 1..Len(l) : l[n].op = "generate"}}

\* No run was killed since the last run that completed.
NoInterrupt == [at |-> "none", start |-> Absent, sent |-> {}]

InitState ==
    /\ sheet \in Lists
    /\ file = Absent
    /\ pc = [p \in Procs |-> "idle"]
    /\ professors = [p \in Procs |-> <<>>]
    /\ status = [p \in Procs |-> DefaultStatus]
    /\ last_index = [p \in Procs |-> 0]
    /\ sent_emails = [p \in Procs |-> <<>>]
    /\ i = [p \in Procs |-> 0]
    /\ emails_sent = [p \in Procs |-> 0]
    /\ file0 = [p \in Procs |-> Absent]
    /\ log = [p \in Procs |-> <<>>]
    /\ fileops = [p \in Procs |-> <<>>]
    /\ runs = 0
    /\ edits = 0
    /\ seen = {}
    /\ attempts = {}
    /\ interrupted = NoInterrupt

\* The state before main() is first run, where the directory of STATUS_FILE
\* can be made.
Init == InitState /\ creatable = TRUE

\* The state before main() is first run, whether or not the directory of
\* STATUS_FILE can be made.
InitAnyDir == InitState /\ creatable \in BOOLEAN

\* Line 143 as it would be if the test for an empty list were missing.
NoDataUnchecked(profs) == FALSE

\* The test of line 143, 'if not professors'.
NoData(profs) == profs = <<>>

\* A process is not executing main().
Stopped(p) == pc[p] \in {"idle", "done", "killed", "crashed"}

\* Lines 142-145 on a sheet holding the rows s: a run starts, fetches the
\* sheet, and returns if it is empty.
FetchFrom(p, s) ==
    /\ Stopped(p)
    /\ runs < MaxRuns
    /\ sheet' = s
    /\ professors' = [professors EXCEPT ![p] = GetProfessorData(s)]
    /\ status' = [status EXCEPT ![p] = DefaultStatus]
    /\ last_index' = [last_index EXCEPT ![p] = 0]
    /\ sent_emails' = [sent_emails EXCEPT ![p] = <<>>]
    /\ i' = [i EXCEPT ![p] = 0]
    /\ emails_sent' = [emails_sent EXCEPT ![p] = 0]
    /\ file0' = [file0 EXCEPT ![p] = file]
    /\ log' = [log EXCEPT ![p] = <<>>]
    /\ fileops' = [fileops EXCEPT ![p] = <<>>]
    /\ seen' = seen \cup Persisted(file)
    /\ attempts' = IF s = sheet THEN attempts ELSE {}
    /\ IF NoData(GetProfessorData(s))
       THEN /\ pc' = [pc EXCEPT ![p] = "done"]
            /\ runs' = runs + 1
            /\ interrupted' = NoInterrupt
       ELSE /\ pc' = [pc EXCEPT ![p] = "load"]
            /\ UNCHANGED <<runs, interrupted>>
    /\ UNCHANGED <<file, creatable>>

\* A run starts on the sheet as the previous run found it.
Fetch(p) == FetchFrom(p, sheet) /\ UNCHANGED edits

\* A run starts on a sheet that was edited since the previous run.
FetchEdited(p) ==
    /\ edits < MaxEdits
    /\ edits' = edits + 1
    /\ \E s \in Lists : s # sheet /\ FetchFrom(p, s)

\* Lines 147-153: load the status; an unparsable file ends the process.
Load(p) ==
    /\ pc[p] = "load"
    /\ fileops' = [fileops EXCEPT ![p] = Append(fileops[p], "load")]
    /\ IF LoadRaises(file)
       THEN /\ pc' = [pc EXCEPT ![p] = "crashed"]
            /\ UNCHANGED <<status, last_index, sent_emails, i>>
       ELSE /\ pc' = [pc EXCEPT ![p] = "loop"]
            /\ status' = [status EXCEPT ![p] = LoadResult(file)]
            /\ last_index' = [last_index EXCEPT ![p] = LoadResult(file).last_index]
            /\ sent_emails' = [sent_emails EXCEPT ![p] = LoadResult(file).sent_emails]
            /\ i' = [i EXCEPT ![p] = LoadResult(file).last_index]
    /\ file0' = [file0 EXCEPT ![p] = file]
    /\ UNCHANGED <<sheet, creatable, file, professors, emails_sent, log, history>>

\* Line 158 as it would be if only the latest entry of sent_emails were compared.
AlreadySentLatest(p) ==
    /\ sent_emails[p] # <<>>
    /\ Professor(p) = sent_emails[p][Len(sent_emails[p])]

\* The test of line 158.
AlreadySent(p) == Professor(p) \in Range(sent_emails[p])

\* Lines 154-159: the address was sent to before; next iteration.
Skip(p) ==
    /\ pc[p] = "loop"
    /\ i[p] < WindowEnd(p)
    /\ AlreadySent(p)
    /\ i' = [i EXCEPT ![p] = i[p] + 1]
    /\ UNCHANGED <<sheet, creatable, file, pc, professors, status, last_index, sent_emails,
                   emails_sent, file0, log, fileops, history>>

\* What generate_email_content does: it returns a subject and a body ("ok"),
\* the API call raises ("error"), or the reply is not the JSON asked for and
\* json.loads or the key lookup raises ("malformed").
GenerateOutcomes == {"ok", "error", "malformed"}

\* Line 162 as it would be if a failure of generate_email_content were not
\* told from a result.
GenerateReturnedAlways(out) == TRUE

\* generate_email_content returned a subject and a body instead of raising.
GenerateReturned(out) == out = "ok"

\* Lines 173-174 as they would be without the try block.
OnExceptionUncaught(p) == "crashed"

\* Where main() goes on after the except clause of lines 173-174: to the next
\* iteration of the loop.
OnException(p) == "loop"

\* Lines 161-162 and 173-174: generate the message; an exception is caught
\* and the loop goes on to the next professor.
Generate(p) ==
    /\ pc[p] = "loop"
    /\ i[p] < WindowEnd(p)
    /\ ~AlreadySent(p)
    /\ \E out \in GenerateOutcomes :
         /\ log' = [log EXCEPT ![p] = Append(log[p], Call("generate", p, out = "ok"))]
         /\ IF GenerateReturned(out)
            THEN /\ pc' = [pc EXCEPT ![p] = "send"]
                 /\ i' = i
            ELSE /\ pc' = [pc EXCEPT ![p] = OnException(p)]
                 /\ i' = [i EXCEPT ![p] = i[p] + 1]
    /\ UNCHANGED <<sheet, creatable, file, professors, status, last_index, sent_emails,
                   emails_sent, file0, fileops, history>>

\* Line 168 as it would be if the list were replaced instead of appended to.
AppendSentReplace(p) == <<Professor(p)>>

\* sent_emails.append(professor['email']) (line 168).
AppendSent(p) == Append(sent_emails[p], Professor(p))

\* Lines 165-174 as they would be if the address were appended before the
\* outcome of send_email is known.
SentAfterAlways(p, ok) == AppendSent(p)

\* sent_emails after lines 165-174: the address is appended when send_email
\* returned (ok), and not when it raised.
SentAfter(p, ok) == IF ok THEN AppendSent(p) ELSE sent_emails[p]

\* Lines 165-174: send the message; send_email returns True or raises.
Send(p) ==
    /\ pc[p] = "send"
    /\ \E ok \in BOOLEAN :
         /\ log' = [log EXCEPT ![p] = Append(log[p], Call("send", p, ok))]
         /\ sent_emails' = [sent_emails EXCEPT ![p] = SentAfter(p, ok)]
         /\ status' = [status EXCEPT ![p].sent_emails = SentAfter(p, ok)]
         /\ emails_sent' = [emails_sent EXCEPT ![p] = emails_sent[p] + (IF ok THEN 1 ELSE 0)]
         /\ pc' = [pc EXCEPT ![p] = IF ok THEN "loop" ELSE OnException(p)]
    /\ i' = [i EXCEPT ![p] = i[p] + 1]
    /\ UNCHANGED <<sheet, creatable, file, professors, last_index, file0, fileops, history>>

\* Line 177 as it would be if the index advanced by the number of emails sent.
NextIndexBySent(p) == Min(last_index[p] + emails_sent[p], Len(professors[p]))

\* Line 177 as it would be without the cap at the length of the list.
NextIndexNoCap(p) == last_index[p] + EMAILS_PER_DAY

\* status["last_index"] of line 177.
NextIndex(p) == Min(last_index[p] + EMAILS_PER_DAY, Len(professors[p]))

\* Lines 176-178: the loop is over; update the status.
Update(p) ==
    /\ pc[p] = "loop"
    /\ i[p] >= WindowEnd(p)
    /\ status' = [status EXCEPT ![p] =
                    [last_index |-> NextIndex(p), sent_emails |-> sent_emails[p]]]
    /\ pc' = [pc EXCEPT ![p] = "save"]
    /\ UNCHANGED <<sheet, creatable, file, professors, last_index, sent_emails, i,
                   emails_sent, file0, log, fileops, history>>

\* os.makedirs of line 66 raises.
MakedirsRaises == ~creatable

\* Lines 66-68: save_email_status makes the directory, which ends the process
\* if it cannot be made, and opens the file for writing, which empties it.
SaveOpen(p) ==
    /\ pc[p] = "save"
    /\ IF MakedirsRaises
       THEN /\ pc' = [pc EXCEPT ![p] = "crashed"]
            /\ fileops' = [fileops EXCEPT ![p] = Append(fileops[p], "makedirs")]
            /\ file' = file
       ELSE /\ pc' = [pc EXCEPT ![p] = "dump"]
            /\ fileops' = [fileops EXCEPT ![p] = Append(fileops[p], "open")]
            /\ file' = Truncated
    /\ UNCHANGED <<sheet, creatable, locals, file0, log, history>>

\* Lines 69 and 181: json.dump writes the status, the file is closed, and
\* main() prints its summary and returns.
SaveDump(p) ==
    /\ pc[p] = "dump"
    /\ file' = Valid(status[p])
    /\ fileops' = [fileops EXCEPT ![p] = Append(fileops[p], "dump")]
    /\ pc' = [pc EXCEPT ![p] = "done"]
    /\ runs' = runs + 1
    /\ attempts' = attempts \cup Attempts(log[p])
    /\ interrupted' = NoInterrupt
    /\ UNCHANGED <<sheet, creatable, locals, file0, log, edits, seen>>

\* The process is terminated from outside at any point of main().
Kill(p) ==
    /\ ~Stopped(p)
    /\ pc' = [pc EXCEPT ![p] = "killed"]
    /\ interrupted' = [at |-> pc[p], start |-> file0[p], sent |-> Delivered(log[p])]
    /\ UNCHANGED <<sheet, creatable, file, locals, file0, log, fileops, runs, edits, seen,
                   attempts>>

\* One step of main() in process p.
Step(p) ==
    \/ Fetch(p)
    \/ Load(p)
    \/ Skip(p)
    \/ Generate(p)
    \/ Send(p)
    \/ Update(p)
    \/ SaveOpen(p)
    \/ SaveDump(p)

\* One process at a time runs main() on a sheet that never changes; a run
\* may be killed at any point.
Next ==
    \/ Step(Runner)
    \/ Kill(Runner)

Spec == Init /\ [][Next]_vars

\* One process at a time runs main() to completion; the sheet may be edited
\* between runs.
NextEdit ==
    \/ Step(Runner)
    \/ FetchEdited(Runner)

SpecEdit == Init /\ [][NextEdit]_vars

\* One process at a time runs main() to completion on a sheet that never changes.
NextFixed == Step(Runner)

SpecFixed == Init /\ [][NextFixed]_vars

\* As SpecFixed, whether or not the directory of STATUS_FILE can be made.
SpecAnyDir == InitAnyDir /\ [][NextFixed]_vars

\* Each process runs main() once, to completion, on a sheet that never
\* changes; the two runs may overlap in any way.
StepOnce(p) ==
    \/ pc[p] = "idle" /\ Fetch(p)
    \/ Load(p)
    \/ Skip(p)
    \/ Generate(p)
    \/ Send(p)
    \/ Update(p)
    \/ SaveOpen(p)
    \/ SaveDump(p)

NextConcurrent ==
    \/ StepOnce("p1")
    \/ StepOnce("p2")

SpecConcurrent == Init /\ [][NextConcurrent]_vars

---------------------------------------------------------------------------
(* Properties *)

\* No run is in progress and the last one, if any, returned.
AtRest == pc[Runner] \in {"idle", "done"}

\* The run of the Runner has returned.
Returned == pc[Runner] = "done"

\* The calls of one kind in a log.
Calls(l, op) == {k \in 1..Len(l) : l[k].op = op}

\* C1: with a fixed sheet of length L and quota Q, starting from the default
\* checkpoint, the persisted last_index after k completed runs is min(k*Q, L),
\* whichever professors failed generation or delivery.
C1_ResumptionIndex ==
    AtRest =>
        /\ file.st # "truncated"
        /\ file.last_index = Min(runs * EMAILS_PER_DAY, Len(sheet))

\* C1 witness: a third run has completed on a sheet of more than one window,
\* with a failed professor in an earlier run, and the index is the length.
C1_Witness ==
    /\ Returned
    /\ runs = MaxRuns
    /\ Len(sheet) > EMAILS_PER_DAY
    /\ file.st = "valid"
    /\ file.last_index = Len(sheet)
    /\ \E a \in attempts : a[2] = "failed"

\* C2: send_email is never called for an address that STATUS_FILE recorded as
\* sent to when this run or an earlier run started, wherever in the window a
\* professor with that address stands.
C2_NoDuplicateDelivery ==
    \A p \in Procs : \A k \in Calls(log[p], "send") : log[p][k].addr \notin seen

\* C2 witness: a run that found addresses recorded has gone over a professor
\* of its window with a recorded address, and has returned.
C2_Witness ==
    /\ Returned
    /\ file0[Runner].st = "valid"
    /\ \E k \in last_index[Runner] .. WindowEnd(Runner) - 1 :
         professors[Runner][k + 1] \in Persisted(file0[Runner])

\* C3 as claimed: a run that finds STATUS_FILE absent or unparsable loads the
\* default status without raising, and goes on as a first run.
C3_DefaultOnUnreadable ==
    \A p \in Procs :
        (file0[p].st # "valid" /\ fileops[p] # <<>>) =>
            /\ pc[p] # "crashed"
            /\ last_index[p] = 0
            /\ Persisted(file0[p]) = {}

\* C3 witness: a run found STATUS_FILE unparsable and has tried to load it.
C3_Witness ==
    /\ file0[Runner].st = "truncated"
    /\ fileops[Runner] # <<>>

\* C4 as claimed: whatever sheet a completed run fetched, the persisted
\* last_index is not below, and the persisted addresses include, those the
\* run found.
C4_MonotoneAnySheet ==
    Returned =>
        /\ file.last_index >= file0[Runner].last_index
        /\ Persisted(file0[Runner]) \subseteq Persisted(file)

\* C4 amended: the persisted addresses of a completed run include those it
\* found; the persisted last_index is not below the one it found unless the
\* fetched list is non-empty and shorter than that index, and then it is the
\* length of the list.
C4_Monotone ==
    Returned =>
        /\ Persisted(file0[Runner]) \subseteq Persisted(file)
        /\ IF professors[Runner] # <<>> /\ Len(professors[Runner]) < file0[Runner].last_index
           THEN file.last_index = Len(professors[Runner])
           ELSE file.last_index >= file0[Runner].last_index

\* C4 witness: a completed run on an edited sheet found addresses recorded,
\* sent to one more, and advanced the index.
C4_Witness ==
    /\ Returned
    /\ edits > 0
    /\ Persisted(file0[Runner]) # {}
    /\ Persisted(file) # Persisted(file0[Runner])
    /\ file.last_index > file0[Runner].last_index

\* The run of the Runner had a window that was not empty.
HadWindow ==
    /\ professors[Runner] # <<>>
    /\ file0[Runner].last_index < Len(professors[Runner])

\* The addresses of the calls of a log that failed.
FailedAddrs(l) == {l[k].addr : k \in {n \in 1..Len(l) : ~l[n].ok}}

\* C5 as claimed: after a completed run over a non-empty window the index has
\* advanced by the quota, capped at the length of the list; the persisted
\* addresses are those the run found plus those it delivered to; and no
\* address of a failed attempt was added.
C5_PartialFailureAsClaimed ==
    (Returned /\ HadWindow) =>
        /\ file.last_index =
             Min(file0[Runner].last_index + EMAILS_PER_DAY, Len(professors[Runner]))
        /\ Persisted(file) = Persisted(file0[Runner]) \cup Delivered(log[Runner])
        /\ FailedAddrs(log[Runner]) \cap (Persisted(file) \ Persisted(file0[Runner])) = {}

\* C5 amended: as claimed, except that an address of a failed attempt is not
\* added unless the same run delivered to a professor with that address.
C5_PartialFailure ==
    (Returned /\ HadWindow) =>
        /\ file.last_index =
             Min(file0[Runner].last_index + EMAILS_PER_DAY, Len(professors[Runner]))
        /\ Persisted(file) = Persisted(file0[Runner]) \cup Delivered(log[Runner])
        /\ (FailedAddrs(log[Runner]) \ Delivered(log[Runner]))
              \cap (Persisted(file) \ Persisted(file0[Runner])) = {}

\* C5 witness: a completed run over a full window in which one professor
\* failed and another was delivered to.
C5_Witness ==
    /\ Returned
    /\ HadWindow
    /\ file.last_index = file0[Runner].last_index + EMAILS_PER_DAY
    /\ Delivered(log[Runner]) # {}
    /\ FailedAddrs(log[Runner]) \ Delivered(log[Runner]) # {}

\* C6 as claimed: a run that loads STATUS_FILE after a save, complete or cut
\* short, finds a complete status in it.
C6_AtomicSave ==
    \A p \in Procs : pc[p] = "load" => file.st # "truncated"

\* C6 witness: a run is about to load after a run was killed during its save.
C6_Witness ==
    /\ pc[Runner] = "load"
    /\ interrupted.at = "dump"

\* The positions of main() after the load and before the save.
BeforeSave == {"loop", "send", "save"}

C8_Exhausted ==
    (/\ Returned
     /\ professors[Runner] # <<>>
     /\ file0[Runner].st = "valid"
     /\ file0[Runner].last_index = Len(professors[Runner])) =>
        /\ log[Runner] = <<>>
        /\ emails_sent[Runner] = 0
        /\ file = file0[Runner]

\* C8 witness: a run on an exhausted sheet has loaded, saved and returned.
C8_Witness ==
    /\ Returned
    /\ professors[Runner] # <<>>
    /\ file0[Runner].st = "valid"
    /\ file0[Runner].last_index = Len(professors[Runner])
    /\ fileops[Runner] = <<"load", "open", "dump">>

\* C9: a run that fetched an empty list returned without calling
\* generate_email_content or send_email and without reading or writing
\* STATUS_FILE, which is as the run found it (absent if it was absent).
C9_EmptyInput ==
    (Returned /\ professors[Runner] = <<>>) =>
        /\ log[Runner] = <<>>
        /\ fileops[Runner] = <<>>
        /\ emails_sent[Runner] = 0
        /\ file = file0[Runner]

\* C9 witness: a run returned on a sheet emptied after earlier runs had
\* written STATUS_FILE.
C9_Witness ==
    /\ Returned
    /\ professors[Runner] = <<>>
    /\ file.st = "valid"
    /\ Persisted(file) # {}

\* The addresses of a list are pairwise distinct.
Distinct(s) == \A j, k \in 1..Len(s) : j # k => s[j] # s[k]

\* C10: on a fixed sheet of pairwise distinct addresses, a professor whose
\* attempt failed in a completed run is not recorded as sent to, and no run
\* calls generate_email_content or send_email for a position that a completed
\* run has attempted.
C10_NoRetry ==
    Distinct(sheet) =>
        /\ \A a \in attempts : a[2] = "failed" => sheet[a[1] + 1] \notin Persisted(file)
        /\ \A a, b \in attempts : a[1] = b[1] => a = b
        /\ ~Returned =>
             \A k \in 1..Len(log[Runner]) : \A a \in attempts : a[1] # log[Runner][k].pos

\* C10 witness: after a professor of the first window failed, a later run
\* has attempted the next window and returned.
C10_Witness ==
    /\ Returned
    /\ Distinct(sheet)
    /\ Len(sheet) > EMAILS_PER_DAY
    /\ \E a \in attempts : a[2] = "failed" /\ a[1] < EMAILS_PER_DAY
    /\ log[Runner] # <<>>
    /\ file0[Runner].last_index = EMAILS_PER_DAY

\* The other process.
Other(p) == CHOOSE q \in Procs : q # p

\* Both processes have run main() to completion.
BothReturned == \A p \in Procs : pc[p] = "done"

\* C11: when two runs that loaded the same status have both completed,
\* STATUS_FILE holds what the run that saved last computed from that status:
\* last_index is one quota past the loaded index (capped at the length of
\* the list), not two, and the addresses are those loaded plus those that
\* one of the runs delivered to.  Both runs had the same window, and neither
\* skipped a professor on account of a delivery of the other.
C11_LostUpdate ==
    (BothReturned /\ professors[Runner] # <<>> /\ file0[Runner] = file0[Other(Runner)]) =>
        /\ last_index[Runner] = last_index[Other(Runner)]
        /\ file.last_index =
             Min(file0[Runner].last_index + EMAILS_PER_DAY, Len(sheet))
        /\ \E p \in Procs :
             Persisted(file) = Persisted(file0[p]) \cup Delivered(log[p])
        /\ \A p \in Procs :
             Range(sent_emails[p]) = Persisted(file0[p]) \cup Delivered(log[p])

\* C11 witness: both runs found no STATUS_FILE and both completed; both
\* delivered to the professor at the same position; the index is one quota
\* although the list is longer; and a delivery of one run is not recorded.
C11_Witness ==
    /\ BothReturned
    /\ \A p \in Procs : file0[p] = Absent
    /\ runs = Cardinality(Procs)
    /\ Len(sheet) > EMAILS_PER_DAY
    /\ file.last_index = EMAILS_PER_DAY
    /\ \E j \in Calls(log[Runner], "send") : \E k \in Calls(log[Other(Runner)], "send") :
         /\ log[Runner][j].ok
         /\ log[Other(Runner)][k].ok
         /\ log[Runner][j].pos = log[Other(Runner)][k].pos
    /\ \E p \in Procs : ~(Delivered(log[p]) \subseteq Persisted(file))

\* The addresses recorded as sent to when the loop of process p came to
\* position k: those loaded, and those delivered to at earlier positions.
DeliveredAt(p, k) ==
    Persisted(file0[p]) \cup
        {log[p][n].addr : n \in {m \in Calls(log[p], "send") : log[p][m].ok /\ log[p][m].pos < k}}

\* The positions of its window that the loop of process p has gone past.
Passed(p) == {k \in last_index[p]..(WindowEnd(p) - 1) : k < i[p]}

\* C12: a failure at one professor never stops the batch: generate_email_content
\* is called for every position of the window whose address is not yet recorded
\* as sent to when its turn comes, whatever failed before it, no failure ends
\* the process, the loop can always go on, and the save comes only after the
\* whole window.
C12_FailureIsolated ==
    /\ pc[Runner] # "crashed"
    /\ pc[Runner] \in {"loop", "send"} =>
         ENABLED (Skip(Runner) \/ Generate(Runner) \/ Send(Runner) \/ Update(Runner))
    /\ (pc[Runner] \in {"save", "dump", "done"} /\ professors[Runner] # <<>>) =>
         i[Runner] = WindowEnd(Runner)
    /\ pc[Runner] \in {"loop", "send", "save", "dump", "done"} =>
         \A k \in Passed(Runner) :
            (professors[Runner][k + 1] \notin DeliveredAt(Runner, k)) <=>
                (\E n \in Calls(log[Runner], "generate") : log[Runner][n].pos = k)

C12_Witness ==
    /\ Returned
    /\ file.st = "valid"
    /\ file.last_index = WindowEnd(Runner)
    /\ \E j \in Calls(log[Runner], "send") : \E n \in Calls(log[Runner], "generate") :
         /\ ~log[Runner][j].ok
         /\ ~log[Runner][n].ok
         /\ log[Runner][n].pos > log[Runner][j].pos

\* C13: in a run where the directory of STATUS_FILE cannot be made, send_email
\* is never called.
C13_AbortBeforeDispatch ==
    (~creatable) => Calls(log[Runner], "send") = {}

\* The directory cannot be made and the run died in os.makedirs, after it had
\* delivered a message.
C13_Witness ==
    /\ ~creatable
    /\ pc[Runner] = "crashed"
    /\ fileops[Runner] = <<"load", "makedirs">>
    /\ file = Absent
    /\ Delivered(log[Runner]) # {}

\* The window of the run of process p, as positions of the list.
Window(p) ==
    {k \in 0..(Len(professors[p]) - 1) :
        /\ k >= file0[p].last_index
        /\ k < Min(file0[p].last_index + EMAILS_PER_DAY, Len(professors[p]))}

\* C14: generate_email_content and send_email are called only for positions of
\* the window [last_index, min(last_index + EMAILS_PER_DAY, L)) of the loaded
\* status, in increasing order of position (a send right after the generate of
\* its position), and a run calls send_email at most EMAILS_PER_DAY times,
\* positions skipped as already sent to included in the window.
C14_WindowOnly ==
    LET l == log[Runner] IN
    /\ \A k \in 1..Len(l) : l[k].pos \in Window(Runner)
    /\ \A j, k \in 1..Len(l) :
         j < k => \/ l[j].pos < l[k].pos
                  \/ l[j].pos = l[k].pos /\ k = j + 1 /\ l[j].op = "generate" /\ l[k].op = "send"
    /\ Cardinality(Calls(l, "send")) <= EMAILS_PER_DAY

\* A completed run whose window held an address already sent to, skipped it,
\* called send_email fewer times than the quota, and left professors beyond
\* the window untouched.
C14_Witness ==
    /\ Returned
    /\ Cardinality(Window(Runner)) = EMAILS_PER_DAY
    /\ Len(professors[Runner]) > file0[Runner].last_index + EMAILS_PER_DAY
    /\ \E k \in Window(Runner) :
         /\ professors[Runner][k + 1] \in DeliveredAt(Runner, k)
         /\ \A n \in 1..Len(log[Runner]) : log[Runner][n].pos # k
    /\ Cardinality(Calls(log[Runner], "send")) = EMAILS_PER_DAY - 1

\* C15: send_email is called only right after generate_email_content returned
\* for the same position in the same run, a position whose generation raised
\* has no send_email call, and an address is in sent_emails, in the run and in
\* the file, only if it was loaded or send_email returned for it.
C15_GenerateThenSend ==
    LET l == log[Runner] IN
    /\ \A k \in Calls(l, "send") :
         /\ k > 1
         /\ l[k - 1].op = "generate"
         /\ l[k - 1].ok
         /\ l[k - 1].pos = l[k].pos
    /\ \A j \in Calls(l, "generate") :
         ~l[j].ok => \A k \in Calls(l, "send") : l[k].pos # l[j].pos
    /\ Range(sent_emails[Runner]) \subseteq Persisted(file0[Runner]) \cup Delivered(l)
    /\ Range(status[Runner].sent_emails) \subseteq Persisted(file0[Runner]) \cup Delivered(l)
    /\ Persisted(file) \subseteq Persisted(file0[Runner]) \cup Delivered(l)

\* A completed run in which generation failed for one professor, who got no
\* send_email call, succeeded for another, whose address was recorded after
\* the delivery.
C15_Witness ==
    LET l == log[Runner] IN
    /\ Returned
    /\ \E j \in Calls(l, "generate") :
         /\ ~l[j].ok
         /\ l[j].addr \notin Persisted(file)
    /\ \E k \in Calls(l, "send") :
         /\ l[k].ok
         /\ l[k].addr \in Persisted(file) \ Persisted(file0[Runner])

\* The positions send_email returned for: in the runs completed on this sheet,
\* and in the run under way.
SentPositions ==
    {a[1] : a \in {b \in attempts : b[2] = "sent"}} \cup
        {log[Runner][k].pos : k \in {n \in Calls(log[Runner], "send") : log[Runner][n].ok}}

\* C16: over runs that each complete, one at a time, on a list that may hold
\* an address at several positions, send_email returns at most once for each
\* address: no position is delivered to in two runs or twice in a run, and no
\* two positions delivered to hold the same address.
C16_OncePerAddress ==
    LET l == log[Runner] IN
    /\ ~Returned => \A k \in 1..Len(l) : \A a \in attempts : a[1] # l[k].pos
    /\ \A j, k \in Calls(l, "send") : (l[j].ok /\ l[k].ok /\ j # k) => l[j].addr # l[k].addr
    /\ \A j, k \in SentPositions : sheet[j + 1] = sheet[k + 1] => j = k

\* Two runs have completed on a list that holds, in the window of the second,
\* an address the first delivered to; the second did not call for it.
C16_Witness ==
    /\ Returned
    /\ runs >= 2
    /\ \E j \in SentPositions : \E k \in Window(Runner) :
         /\ j < file0[Runner].last_index
         /\ sheet[j + 1] = sheet[k + 1]
         /\ k \notin {a[1] : a \in attempts}
    /\ file.last_index = Len(sheet)

\* C17: sent_emails holds no address twice, in the file and in the run, when
\* the status the run loaded held none twice, whatever the list and whatever
\* succeeded or failed.
C17_UniqueDelivered ==
    Distinct(file0[Runner].sent_emails) =>
        /\ Distinct(file.sent_emails)
        /\ Distinct(sent_emails[Runner])
        /\ Distinct(status[Runner].sent_emails)

\* A completed run whose window held one address at two positions, delivered
\* to the first, and saved the address.
C17_Witness ==
    LET l == log[Runner] IN
    /\ Returned
    /\ file.st = "valid"
    /\ \E j, k \in Window(Runner) :
         /\ j < k
         /\ professors[Runner][j + 1] = professors[Runner][k + 1]
         /\ \E n \in Calls(l, "send") : l[n].ok /\ l[n].pos = j
         /\ professors[Runner][j + 1] \in Persisted(file)

=============================================================================
